---- MODULE Spec2Model ----
(***************************************************************************)
(* A model of chords.py: the Chord / Segment / Song data model, the chord  *)
(* and chord-sheet parsers, transposition, respelling and the two          *)
(* renderers.                                                              *)
(*                                                                         *)
(* Python strings are sequences of one-character strings.  An optional     *)
(* value (Python None or a value) is the empty sequence or a one-element   *)
(* sequence.  A call that may raise returns a record whose field exc names *)
(* the exception ("none" when the call returns).  Object identity of the   *)
(* mutable chord data (Chord objects and their modifier lists) is kept in  *)
(* the fields id and modsId; heapTop counts the objects allocated so far.  *)
(***************************************************************************)
EXTENDS Integers, Sequences, FiniteSets, TLC

VARIABLES text, pc, res, chord, base, k, ops, last, song, prev, out, heapTop

vars == <<text, pc, res, chord, base, k, ops, last, song, prev, out, heapTop>>

(***************************************************************************)
(* Bounds of the model.                                                    *)
(***************************************************************************)
\* longest chord token drawn in SpecParse
MaxTokLen == 5
\* largest single transposition amount, in either direction
MaxShift == 2
\* largest absolute accumulated transposition followed in SpecChord
MaxSum == 3
\* number of pure transforms (each allocates new objects) in one behaviour
MaxPure == 2
\* most lines of a document drawn in SpecLabels
MaxLabelLines == 5
\* most lines of a document drawn in SpecSong
MaxSongLines == 4
\* largest transposition amount applied to a whole song in SpecSong
MaxSongShift == 1
\* number of transforms applied to a song in one behaviour of SpecSong
MaxSongOps == 2

(***************************************************************************)
(* Python values and string helpers.                                       *)
(***************************************************************************)
None == <<>>
Some(x) == <<x>>

\* Python truthiness of an optional integer: None and 0 are falsy.
Truthy(b) == b # None /\ b[1] # 0

\* text[n:]
Drop(s, n) == SubSeq(s, n + 1, Len(s))

\* text[a:b] for 0 <= a <= b
Slice(s, a, b) == SubSeq(s, a + 1, IF b < Len(s) THEN b ELSE Len(s))

\* text.startswith(p)
StartsWith(s, p) == Len(p) <= Len(s) /\ SubSeq(s, 1, Len(p)) = p

\* "".join(list)
RECURSIVE Join(_)
Join(list) == IF list = <<>> THEN <<>> ELSE Head(list) \o Join(Tail(list))

\* list.index(x) as a zero-based position; -1 stands for the ValueError raised
\* when x is not in the list.
ListIndex(list, x) ==
    IF \E i \in 1..Len(list) : list[i] = x
    THEN (CHOOSE i \in 1..Len(list) : list[i] = x /\ \A j \in 1..(i - 1) : list[j] # x) - 1
    ELSE -1

\* list[i] with Python's negative indices; <<>> stands for the IndexError.
PyIndex(list, i) ==
    IF i >= 0 /\ i < Len(list) THEN Some(list[i + 1])
    ELSE IF i < 0 /\ -i <= Len(list) THEN Some(list[Len(list) + i + 1])
    ELSE None

Raise(e) == [exc |-> e]

\* Exception propagation: when the call r raised, the caller raises the same
\* exception; otherwise the caller goes on with r's result.
Try(r, Go(_)) == IF r.exc # "none" THEN Raise(r.exc) ELSE Go(r)

(***************************************************************************)
(* class Chord                                                             *)
(***************************************************************************)
Chord_mods ==
    << <<"-">>, <<"5">>, <<"6">>, <<"7">>, <<"9">>, <<"1", "1">>, <<"1", "3">>,
       <<"m", "a", "j", "7">>, <<"a", "u", "g">>, <<"s", "u", "s", "4">>,
       <<"s", "u", "s", "2">>, <<"d", "i", "m">>, <<"a", "d", "d", "9">> >>

Chord_notes == <<"C", "", "D", "", "E", "F", "", "G", "", "A", "", "B">>

\* "b#".index(ch) * 2 - 1 for ch in "b#"
AccidentalShift(ch) == IF ch = "b" THEN -1 ELSE 1

\* A constructor that stores val and bass as given, without reducing them mod 12.
Chord__init__NoMod(id, val, scale, shiftpref, mods, modsId, bass) ==
    [id |-> id, mods |-> mods, modsId |-> modsId, shiftpref |-> shiftpref,
     scale |-> scale, val |-> val, bass |-> bass]

\* Chord.__init__
Chord__init__(id, val, scale, shiftpref, mods, modsId, bass) ==
    [id |-> id, mods |-> mods, modsId |-> modsId, shiftpref |-> shiftpref,
     scale |-> scale, val |-> val % 12,
     bass |-> IF Truthy(bass) THEN Some(bass[1] % 12) ELSE bass]

\* The first entry of Chord.mods the text starts with (1-based), 0 when none.
FirstMod(t) ==
    IF \E i \in 1..Len(Chord_mods) : StartsWith(t, Chord_mods[i])
    THEN CHOOSE i \in 1..Len(Chord_mods) :
            /\ StartsWith(t, Chord_mods[i])
            /\ \A j \in 1..(i - 1) : ~StartsWith(t, Chord_mods[j])
    ELSE 0

\* The slash branch of the modifier loop: `/`, a note letter and at most one
\* further character, which must be an accidental.
SlashBass(t, bass) ==
    IF ~StartsWith(t, <<"/">>) THEN [exc |-> "none", text |-> t, bass |-> bass]
    ELSE IF Len(t) < 2 THEN Raise("IndexError")
    ELSE LET b0 == ListIndex(Chord_notes, t[2])
             t1 == Drop(t, 2)
         IN  IF b0 = -1 THEN Raise("ValueError")
             ELSE IF t1 = <<>> THEN [exc |-> "none", text |-> t1, bass |-> Some(b0)]
             ELSE IF t1[1] \notin {"b", "#"} THEN Raise("ValueError")
             ELSE [exc |-> "none", text |-> Tail(t1),
                   bass |-> Some((b0 + AccidentalShift(t1[1])) % 12)]

\* One pass of the body of `while text:` in which the loop goes on after a slash
\* bass instead of raising on the text that follows it.
ModStepContinue(t, mods, bass) ==
    LET m == FirstMod(t)
    IN  IF m # 0
        THEN [exc |-> "none", text |-> Drop(t, Len(Chord_mods[m])),
              mods |-> Append(mods, Chord_mods[m]), bass |-> bass]
        ELSE Try(SlashBass(t, bass), LAMBDA s :
                 IF s.text = t THEN Raise("ValueError")
                 ELSE [exc |-> "none", text |-> s.text, mods |-> mods, bass |-> s.bass])

\* One pass of the body of `while text:` (the for/else over Chord.mods).
ModStep(t, mods, bass) ==
    LET m == FirstMod(t)
    IN  IF m # 0
        THEN [exc |-> "none", text |-> Drop(t, Len(Chord_mods[m])),
              mods |-> Append(mods, Chord_mods[m]), bass |-> bass]
        ELSE Try(SlashBass(t, bass), LAMBDA s :
                 IF s.text # <<>> THEN Raise("ValueError")
                 ELSE [exc |-> "none", text |-> s.text, mods |-> mods, bass |-> s.bass])

\* while text: ...
RECURSIVE ModLoop(_, _, _)
ModLoop(t, mods, bass) ==
    IF t = <<>> THEN [exc |-> "none", mods |-> mods, bass |-> bass]
    ELSE Try(ModStep(t, mods, bass), LAMBDA s : ModLoop(s.text, s.mods, s.bass))

\* Chord.from_text; the new modifier list is object `at`, the Chord `at + 1`.
Chord_from_text(t, at) ==
    IF t = <<>> THEN Raise("IndexError")
    ELSE
    LET main == t[1]
        t1 == Tail(t)
        val0 == ListIndex(Chord_notes, main)
        acc == t1 # <<>> /\ t1[1] \in {"#", "b"}
        shiftpref == IF acc THEN Some(t1[1]) ELSE None
        val == IF acc THEN (val0 + AccidentalShift(t1[1])) % 12 ELSE val0
        t2 == IF acc THEN Tail(t1) ELSE t1
        minor == t2 # <<>> /\ t2[1] = "m" /\ Slice(t2, 1, 3) # <<"a", "j">>
        scale == IF minor THEN "minor" ELSE "major"
        t3 == IF minor THEN Tail(t2) ELSE t2
    IN  IF val0 = -1 THEN Raise("ValueError")
        ELSE Try(ModLoop(t3, <<>>, None), LAMBDA loop :
            [exc |-> "none",
             chord |-> Chord__init__(at + 1, val, scale, shiftpref, loop.mods, at, loop.bass)])

\* Chord.num2str; notes[num + 1 % 12] is notes[num + 1].
Chord_num2str(self, num) ==
    LET t == PyIndex(Chord_notes, num)
    IN  IF t = None THEN Raise("IndexError")
        ELSE IF t[1] # "" THEN [exc |-> "none", text |-> <<t[1]>>]
        ELSE LET n == IF self.shiftpref = Some("#")
                      THEN PyIndex(Chord_notes, num - 1)
                      ELSE PyIndex(Chord_notes, num + 1)
                 suffix == IF self.shiftpref = Some("#") THEN "#" ELSE "b"
             IN  IF n = None THEN Raise("IndexError")
                 ELSE [exc |-> "none",
                       text |-> (IF n[1] = "" THEN <<>> ELSE <<n[1]>>) \o <<suffix>>]

\* Chord.__str__
Chord__str__(self) ==
    Try(Chord_num2str(self, self.val), LAMBDA main :
    Try(IF self.bass # None THEN Chord_num2str(self, self.bass[1])
        ELSE [exc |-> "none", text |-> <<>>], LAMBDA b :
        [exc |-> "none",
         text |-> main.text \o (IF self.scale = "minor" THEN <<"m">> ELSE <<>>)
                  \o Join(self.mods)
                  \o (IF self.bass # None THEN <<"/">> \o b.text ELSE <<>>)]))

\* Chord.__add__; the copied modifier list is object `at`, the new Chord `at + 1`.
Chord__add__(self, other, at) ==
    Chord__init__(at + 1, self.val + other, self.scale, self.shiftpref, self.mods, at,
                  IF Truthy(self.bass) THEN Some(self.bass[1] + other) ELSE self.bass)

\* Chord.__iadd__
Chord__iadd__(self, other) ==
    [self EXCEPT !.val = (self.val + other) % 12,
                 !.bass = IF Truthy(self.bass) THEN Some((self.bass[1] + other) % 12)
                          ELSE self.bass]

\* Chord.__sub__
Chord__sub__(self, other, at) == Chord__add__(self, -other, at)

\* Chord.__pos__; the new Chord is object `at` and keeps the receiver's list.
Chord__pos__(self, at) ==
    Chord__init__(at, self.val, self.scale, Some("#"), self.mods, self.modsId, self.bass)

\* Chord.__neg__
Chord__neg__(self, at) ==
    Chord__init__(at, self.val, self.scale, Some("b"), self.mods, self.modsId, self.bass)

(***************************************************************************)
(* Text helpers of the Segment and Song parsers.                           *)
(***************************************************************************)
NL == <<"\n">>

\* what the regular expression class \s matches
IsSpace(ch) == ch \in {" ", "\t", "\n", "\r", "\f"}

\* " " * n (empty for n <= 0)
Spaces(n) == IF n > 0 THEN [i \in 1..n |-> " "] ELSE <<>>

\* str.find: zero-based offset of the first occurrence of sep, -1 when none
Find(s, sep) ==
    LET hits == {i \in 0..(Len(s) - Len(sep)) : SubSeq(s, i + 1, i + Len(sep)) = sep}
    IN  IF hits = {} THEN -1 ELSE CHOOSE i \in hits : \A j \in hits : i <= j

\* str.split(sep)
RECURSIVE Split(_, _)
Split(s, sep) ==
    LET i == Find(s, sep)
    IN  IF i = -1 THEN <<s>>
        ELSE <<SubSeq(s, 1, i)>> \o Split(Drop(s, i + Len(sep)), sep)

\* str.partition(sep): the text before the separator and the text after it
Partition(s, sep) ==
    LET i == Find(s, sep)
    IN  IF i = -1 THEN [first |-> s, rest |-> <<>>]
        ELSE [first |-> SubSeq(s, 1, i), rest |-> Drop(s, i + Len(sep))]

\* sep.join(list)
RECURSIVE JoinWith(_, _)
JoinWith(sep, list) ==
    IF list = <<>> THEN <<>>
    ELSE IF Len(list) = 1 THEN list[1]
    ELSE list[1] \o sep \o JoinWith(sep, Tail(list))

\* clump(iterable, 2): consecutive pairs, an unpaired last element dropped
clump2(list) == [i \in 1..(Len(list) \div 2) |-> <<list[2 * i - 1], list[2 * i]>>]

\* zero-based end (exclusive) of the run of non-space characters starting at i
RunEnd(s, i) ==
    CHOOSE e \in (i + 1)..Len(s) :
        /\ \A j \in (i + 1)..e : ~IsSpace(s[j])
        /\ e = Len(s) \/ IsSpace(s[e + 1])

\* re.finditer(r"\S+", s) from zero-based offset i: each match's start and text
RECURSIVE RunsFrom(_, _)
RunsFrom(s, i) ==
    IF i >= Len(s) THEN <<>>
    ELSE IF IsSpace(s[i + 1]) THEN RunsFrom(s, i + 1)
    ELSE <<[start |-> i, tok |-> SubSeq(s, i + 1, RunEnd(s, i))]>>
         \o RunsFrom(s, RunEnd(s, i))

UpperLetters ==
    <<"A", "B", "C", "D", "E", "F", "G", "H", "I", "J", "K", "L", "M",
      "N", "O", "P", "Q", "R", "S", "T", "U", "V", "W", "X", "Y", "Z">>

LowerLetters ==
    <<"a", "b", "c", "d", "e", "f", "g", "h", "i", "j", "k", "l", "m",
      "n", "o", "p", "q", "r", "s", "t", "u", "v", "w", "x", "y", "z">>

\* str.lower()
Lower(s) ==
    [i \in 1..Len(s) |->
        IF ListIndex(UpperLetters, s[i]) = -1 THEN s[i]
        ELSE LowerLetters[ListIndex(UpperLetters, s[i]) + 1]]

\* sorted(keys) of a set of integers
RECURSIVE Sorted(_)
Sorted(S) ==
    IF S = {} THEN <<>>
    ELSE LET m == CHOOSE x \in S : \A y \in S : x <= y
         IN  <<m>> \o Sorted(S \ {m})

(***************************************************************************)
(* A dict {column: Chord} is the sequence of its entries [k, v] in         *)
(* insertion order, the order in which Python iterates it.                 *)
(***************************************************************************)
DictHas(d, key) == \E j \in 1..Len(d) : d[j].k = key

DictGet(d, key) == d[CHOOSE j \in 1..Len(d) : d[j].k = key].v

RECURSIVE CountChords(_)
CountChords(lines) ==
    IF lines = <<>> THEN 0 ELSE Len(lines[1].chords) + CountChords(Tail(lines))

RECURSIVE CountSongChords(_)
CountSongChords(segments) ==
    IF segments = <<>> THEN 0
    ELSE CountChords(segments[1].lines) + CountSongChords(Tail(segments))

(***************************************************************************)
(* class Segment                                                           *)
(***************************************************************************)
\* the chords dict of one chord-annotation line; the j-th token's objects are
\* allocated from at + 2 * (j - 1)
RECURSIVE ChordsOf(_, _)
ChordsOf(runs, at) ==
    IF runs = <<>> THEN [exc |-> "none", chords |-> <<>>]
    ELSE Try(Chord_from_text(runs[1].tok, at), LAMBDA c :
         Try(ChordsOf(Tail(runs), at + 2), LAMBDA r :
             [exc |-> "none",
              chords |-> <<[k |-> runs[1].start, v |-> c.chord]>> \o r.chords]))

\* for cline, tline in clump(text.split("\n"), 2): ...
RECURSIVE LinesOf(_, _)
LinesOf(pairs, at) ==
    IF pairs = <<>> THEN [exc |-> "none", lines |-> <<>>]
    ELSE IF pairs[1][1] = <<>> /\ pairs[1][2] = <<>> THEN LinesOf(Tail(pairs), at)
    ELSE Try(ChordsOf(RunsFrom(pairs[1][1], 0), at), LAMBDA c :
         Try(LinesOf(Tail(pairs), at + 2 * Len(c.chords)), LAMBDA r :
             [exc |-> "none",
              lines |-> <<[tline |-> pairs[1][2], chords |-> c.chords]>> \o r.lines]))

\* first[1:-1]
StripEnds(first) == IF Len(first) >= 2 THEN SubSeq(first, 2, Len(first) - 1) ELSE <<>>

\* the label of Segment.from_text: the header line without its first and last
\* character when the text starts with "[", the fallback label otherwise
Segment_label(t, default_label) ==
    IF StartsWith(t, <<"[">>) THEN Some(StripEnds(Partition(t, NL).first))
    ELSE default_label

\* Segment.from_text
Segment_from_text(t, default_label, at) ==
    LET body == IF StartsWith(t, <<"[">>) THEN Partition(t, NL).rest ELSE t
    IN  Try(LinesOf(clump2(Split(body, NL)), at), LAMBDA r :
            [exc |-> "none",
             segment |-> [label |-> Segment_label(t, default_label), lines |-> r.lines]])

\* the chord-annotation line built by the loop `for i in chords` of __str__
RECURSIVE ChordLine(_, _, _)
ChordLine(chords, lo, cline) ==
    IF chords = <<>> THEN [exc |-> "none", text |-> cline]
    ELSE LET spaces == chords[1].k - lo
         IN  Try(Chord__str__(chords[1].v), LAMBDA c :
                 ChordLine(Tail(chords), lo + spaces + Len(c.text),
                           cline \o Spaces(spaces) \o c.text))

\* for line, chords in self.lines: ... of __str__; clines keeps each line's
\* chord-annotation line as written
RECURSIVE StrLines(_)
StrLines(lines) ==
    IF lines = <<>> THEN [exc |-> "none", text |-> <<>>, clines |-> <<>>]
    ELSE Try(ChordLine(lines[1].chords, 0, <<>>), LAMBDA c :
         Try(StrLines(Tail(lines)), LAMBDA r :
             [exc |-> "none",
              text |-> c.text \o NL \o lines[1].tline \o NL \o r.text,
              clines |-> <<c.text>> \o r.clines]))

\* `if self.label`: a label that is neither None nor empty
LabelTruthy(label) == label # None /\ label[1] # <<>>

\* Segment.__str__
Segment__str__(self) ==
    LET head == IF LabelTruthy(self.label) THEN <<"[">> \o self.label[1] \o <<"]", "\n">>
                ELSE <<>>
    IN  Try(StrLines(self.lines), LAMBDA r :
            [exc |-> "none", text |-> head \o r.text, lines |-> r.clines])

TexTags == {<<"v", "e", "r", "s", "e">>, <<"c", "h", "o", "r", "u", "s">>,
            <<"b", "r", "i", "d", "g", "e">>}

\* the structural tag of to_tex
TexLabel(self) ==
    IF LabelTruthy(self.label) /\ \E x \in TexTags : StartsWith(Lower(self.label[1]), x)
    THEN Lower(RunsFrom(self.label[1], 0)[1].tok)
    ELSE <<"v", "e", "r", "s", "e">>

\* ^{chord}
TexMarker(c) == <<"^", "{">> \o c \o <<"}">>

\* for i, char in enumerate(line): ... from zero-based index i on
RECURSIVE TexChars(_, _, _)
TexChars(line, chords, i) ==
    IF i >= Len(line) THEN [exc |-> "none", text |-> <<>>]
    ELSE Try(IF DictHas(chords, i) THEN Chord__str__(DictGet(chords, i))
             ELSE [exc |-> "none", text |-> <<>>], LAMBDA c :
         Try(TexChars(line, chords, i + 1), LAMBDA r :
             [exc |-> "none",
              text |-> (IF DictHas(chords, i) THEN TexMarker(c.text) ELSE <<>>)
                       \o <<line[i + 1]>> \o r.text]))

\* the trailing markers, for the columns in ks
RECURSIVE TexTrailing(_, _)
TexTrailing(chords, ks) ==
    IF ks = <<>> THEN [exc |-> "none", text |-> <<>>]
    ELSE Try(Chord__str__(DictGet(chords, ks[1])), LAMBDA c :
         Try(TexTrailing(chords, Tail(ks)), LAMBDA r :
             [exc |-> "none", text |-> <<" ">> \o TexMarker(c.text) \o r.text]))

\* the local variable i after `for i, char in enumerate(line)`: enumerate binds
\* it only when the line has characters, otherwise it is as it was on entry
\* (None while unbound, or the value an earlier line left)
AfterEnumerate(line, i) == IF Len(line) > 0 THEN Some(Len(line) - 1) ELSE i

\* [k for k in chords if k > i]
Remaining(chords, i) == {chords[j].k : j \in {x \in 1..Len(chords) : chords[x].k > i}}

\* One pass of `for line, chords in self.lines` of to_tex, i being the local
\* variable i on entry.  The comprehension reads i once per chord, so reading
\* an unbound i raises only when the line has chords.
TexLine(line, chords, i) ==
    Try(TexChars(line, chords, 0), LAMBDA inl :
        IF chords = <<>>
        THEN [exc |-> "none", i |-> AfterEnumerate(line, i),
              text |-> inl.text \o <<" ", "\\", "\\", "\n">>]
        ELSE IF AfterEnumerate(line, i) = None THEN Raise("NameError")
        ELSE Try(TexTrailing(chords, Sorted(Remaining(chords, AfterEnumerate(line, i)[1]))),
                 LAMBDA tr :
                 [exc |-> "none", i |-> AfterEnumerate(line, i),
                  text |-> inl.text
                           \o (IF Remaining(chords, AfterEnumerate(line, i)[1]) # {}
                               THEN tr.text \o <<" ", "\\", "e", "m", "p", "t", "y">>
                               ELSE <<>>)
                           \o <<" ", "\\", "\\", "\n">>]))

\* for line, chords in self.lines: ... of to_tex; tlines keeps what each line wrote
RECURSIVE TexLines(_, _)
TexLines(lines, i) ==
    IF lines = <<>> THEN [exc |-> "none", text |-> <<>>, tlines |-> <<>>]
    ELSE Try(TexLine(lines[1].tline, lines[1].chords, i), LAMBDA l :
         Try(TexLines(Tail(lines), l.i), LAMBDA r :
             [exc |-> "none", text |-> l.text \o r.text,
              tlines |-> <<l.text>> \o r.tlines]))

\* Segment.to_tex
Segment_to_tex(self) ==
    Try(TexLines(self.lines, None), LAMBDA r :
        [exc |-> "none",
         text |-> <<"\\", "b", "e", "g", "i", "n", "{">> \o TexLabel(self) \o <<"}", "\n">>
                  \o r.text
                  \o <<"\\", "e", "n", "d", "{">> \o TexLabel(self) \o <<"}", "\n">>,
         lines |-> r.tlines])

\* chords before line i of a segment, in the order the transforms visit them
ChordsBefore(lines, i) == CountChords(SubSeq(lines, 1, i - 1))

\* Segment.__add__: every chord replaced by chord + other
Segment__add__(self, other, at) ==
    [label |-> self.label,
     lines |-> [i \in 1..Len(self.lines) |->
        [tline |-> self.lines[i].tline,
         chords |-> [j \in 1..Len(self.lines[i].chords) |->
            [k |-> self.lines[i].chords[j].k,
             v |-> Chord__add__(self.lines[i].chords[j].v, other,
                                at + 2 * (ChordsBefore(self.lines, i) + j - 1))]]]]]

\* Segment.__iadd__: every chord transposed in place
Segment__iadd__(self, other) ==
    [label |-> self.label,
     lines |-> [i \in 1..Len(self.lines) |->
        [tline |-> self.lines[i].tline,
         chords |-> [j \in 1..Len(self.lines[i].chords) |->
            [k |-> self.lines[i].chords[j].k,
             v |-> Chord__iadd__(self.lines[i].chords[j].v, other)]]]]]

\* Segment.__sub__
Segment__sub__(self, other, at) == Segment__add__(self, -other, at)

\* Segment.__pos__
Segment__pos__(self, at) ==
    [label |-> self.label,
     lines |-> [i \in 1..Len(self.lines) |->
        [tline |-> self.lines[i].tline,
         chords |-> [j \in 1..Len(self.lines[i].chords) |->
            [k |-> self.lines[i].chords[j].k,
             v |-> Chord__pos__(self.lines[i].chords[j].v,
                                at + ChordsBefore(self.lines, i) + j - 1)]]]]]

\* Segment.__neg__
Segment__neg__(self, at) ==
    [label |-> self.label,
     lines |-> [i \in 1..Len(self.lines) |->
        [tline |-> self.lines[i].tline,
         chords |-> [j \in 1..Len(self.lines[i].chords) |->
            [k |-> self.lines[i].chords[j].k,
             v |-> Chord__neg__(self.lines[i].chords[j].v,
                                at + ChordsBefore(self.lines, i) + j - 1)]]]]]

(***************************************************************************)
(* class Song                                                              *)
(***************************************************************************)
\* for part in text.split("\n\n"): ... with last_label threaded
RECURSIVE SongLoop(_, _, _)
SongLoop(parts, last_label, at) ==
    IF parts = <<>> THEN [exc |-> "none", segments |-> <<>>]
    ELSE Try(Segment_from_text(parts[1], last_label, at), LAMBDA s :
         Try(SongLoop(Tail(parts), s.segment.label, at + 2 * CountChords(s.segment.lines)),
             LAMBDA r : [exc |-> "none", segments |-> <<s.segment>> \o r.segments]))

\* Song.from_text
Song_from_text(t, at) ==
    Try(SongLoop(Split(t, <<"\n", "\n">>), None, at), LAMBDA r :
        [exc |-> "none", song |-> [segments |-> r.segments]])

\* the renderings of the segments, or the first exception one of them raises
RenderAll(results) ==
    IF \E i \in 1..Len(results) : results[i].exc # "none"
    THEN Raise(results[CHOOSE i \in 1..Len(results) :
                    /\ results[i].exc # "none"
                    /\ \A j \in 1..(i - 1) : results[j].exc = "none"].exc)
    ELSE [exc |-> "none",
          texts |-> [i \in 1..Len(results) |-> results[i].text],
          lines |-> [i \in 1..Len(results) |-> results[i].lines]]

\* Song.__str__
Song__str__(self) ==
    Try(RenderAll([i \in 1..Len(self.segments) |-> Segment__str__(self.segments[i])]),
        LAMBDA r : [exc |-> "none", text |-> JoinWith(NL, r.texts), lines |-> r.lines])

\* Song.to_tex
Song_to_tex(self) ==
    Try(RenderAll([i \in 1..Len(self.segments) |-> Segment_to_tex(self.segments[i])]),
        LAMBDA r :
             [exc |-> "none",
              text |-> <<"\\", "b", "e", "g", "i", "n", "{", "s", "o", "n", "g", "}",
                         "[", "v", "e", "r", "s", "e", "/", "n", "u", "m", "b", "e", "r",
                         "e", "d", "]", "{", "t", "i", "t", "l", "e", "=", "{", "}", ",",
                         " ", "m", "u", "s", "i", "c", "=", "{", "}", "}", "\n">>
                       \o JoinWith(NL, r.texts)
                       \o <<"\n", "\\", "e", "n", "d", "{", "s", "o", "n", "g", "}">>,
              lines |-> r.lines])

\* chords before segment i of a song
SegChordsBefore(segments, i) == CountSongChords(SubSeq(segments, 1, i - 1))

\* Song.__add__
Song__add__(self, other, at) ==
    [segments |-> [i \in 1..Len(self.segments) |->
        Segment__add__(self.segments[i], other, at + 2 * SegChordsBefore(self.segments, i))]]

\* Song.__iadd__
Song__iadd__(self, other) ==
    [segments |-> [i \in 1..Len(self.segments) |-> Segment__iadd__(self.segments[i], other)]]

\* Song.__sub__
Song__sub__(self, other, at) ==
    [segments |-> [i \in 1..Len(self.segments) |->
        Segment__sub__(self.segments[i], other, at + 2 * SegChordsBefore(self.segments, i))]]

\* Song.__pos__
Song__pos__(self, at) ==
    [segments |-> [i \in 1..Len(self.segments) |->
        Segment__pos__(self.segments[i], at + SegChordsBefore(self.segments, i))]]

\* Song.__neg__
Song__neg__(self, at) ==
    [segments |-> [i \in 1..Len(self.segments) |->
        Segment__neg__(self.segments[i], at + SegChordsBefore(self.segments, i))]]

(***************************************************************************)
(* Chord-level behaviours.  text is the chord token, res the result of     *)
(* Chord.from_text, chord the Chord the caller currently holds.  base is   *)
(* the chord held after the latest event that was not a pure               *)
(* transposition and k the sum of the pure transpositions applied since;   *)
(* ops counts the transforms that allocate, last records the latest        *)
(* operation with its operand and its receiver.                            *)
(***************************************************************************)
Idle == <<>>

TokenAlphabet == {"C", "G", "#", "b", "m", "7", "/", "H"}

\* every non-empty token over TokenAlphabet of at most MaxTokLen characters
Tokens == UNION {[1..n -> TokenAlphabet] : n \in 1..MaxTokLen}

\* tokens of chords with and without accidental, minor marker and modifier,
\* without bass and with a bass of pitch class 0, 11 and 1
ChordTokens ==
    {r \o a \o q \o b :
        r \in {<<"C">>, <<"B">>},
        a \in {<<>>, <<"#">>, <<"b">>},
        q \in {<<>>, <<"m", "7">>},
        b \in {<<>>, <<"/", "C">>, <<"/", "B">>, <<"/", "D", "b">>}}

Shifts == (-MaxShift)..MaxShift

InitCommon ==
    /\ pc = "start"
    /\ res = Idle
    /\ chord = Idle
    /\ base = Idle
    /\ k = 0
    /\ ops = 0
    /\ last = [op |-> "none"]
    /\ song = Idle
    /\ prev = Idle
    /\ out = Idle
    /\ heapTop = 0

InitParse == text \in Tokens /\ InitCommon

InitChord == text \in ChordTokens /\ InitCommon

\* c = Chord.from_text(token)
ParseToken ==
    /\ pc = "start"
    /\ res' = Chord_from_text(text, heapTop)
    /\ IF res'.exc = "none"
       THEN /\ pc' = "parsed"
            /\ chord' = res'.chord
            /\ base' = res'.chord
            /\ heapTop' = heapTop + 2
       ELSE /\ pc' = "failed"
            /\ UNCHANGED <<chord, base, heapTop>>
    /\ UNCHANGED <<text, k, ops, last, song, prev, out>>

\* c = c + n
ChordAdd(n) ==
    /\ pc = "parsed"
    /\ ops < MaxPure
    /\ k + n \in (-MaxSum)..MaxSum
    /\ chord' = Chord__add__(chord, n, heapTop)
    /\ heapTop' = heapTop + 2
    /\ k' = k + n
    /\ ops' = ops + 1
    /\ last' = [op |-> "add", n |-> n, before |-> chord]
    /\ UNCHANGED <<text, pc, res, base, song, prev, out>>

\* c = c - n
ChordSub(n) ==
    /\ pc = "parsed"
    /\ ops < MaxPure
    /\ k - n \in (-MaxSum)..MaxSum
    /\ chord' = Chord__sub__(chord, n, heapTop)
    /\ heapTop' = heapTop + 2
    /\ k' = k - n
    /\ ops' = ops + 1
    /\ last' = [op |-> "sub", n |-> n, before |-> chord]
    /\ UNCHANGED <<text, pc, res, base, song, prev, out>>

\* c += n
ChordIAdd(n) ==
    /\ pc = "parsed"
    /\ chord' = Chord__iadd__(chord, n)
    /\ base' = chord'
    /\ k' = 0
    /\ last' = [op |-> "iadd", n |-> n, before |-> chord]
    /\ UNCHANGED <<text, pc, res, ops, song, prev, out, heapTop>>

\* c = +c
ChordPos ==
    /\ pc = "parsed"
    /\ ops < MaxPure
    /\ chord' = Chord__pos__(chord, heapTop)
    /\ heapTop' = heapTop + 1
    /\ base' = chord'
    /\ k' = 0
    /\ ops' = ops + 1
    /\ last' = [op |-> "pos", n |-> 0, before |-> chord]
    /\ UNCHANGED <<text, pc, res, song, prev, out>>

\* c = -c
ChordNeg ==
    /\ pc = "parsed"
    /\ ops < MaxPure
    /\ chord' = Chord__neg__(chord, heapTop)
    /\ heapTop' = heapTop + 1
    /\ base' = chord'
    /\ k' = 0
    /\ ops' = ops + 1
    /\ last' = [op |-> "neg", n |-> 0, before |-> chord]
    /\ UNCHANGED <<text, pc, res, song, prev, out>>

NextParse == ParseToken

NextChord ==
    \/ ParseToken
    \/ \E n \in Shifts : ChordAdd(n)
    \/ \E n \in Shifts : ChordSub(n)
    \/ \E n \in Shifts : ChordIAdd(n)
    \/ ChordPos
    \/ ChordNeg

SpecParse == InitParse /\ [][NextParse]_vars

SpecChord == InitChord /\ [][NextChord]_vars

(***************************************************************************)
(* Song-level behaviours.  text is the document, res the result of         *)
(* Song.from_text, song the Song the caller currently holds and prev the   *)
(* receiver of the latest pure transform, which the caller may still hold. *)
(* out is the result of the latest rendering of song.                      *)
(***************************************************************************)
\* every document of 1..n lines drawn from choices, joined by newlines
Documents(choices, n) ==
    {JoinWith(NL, ls) : ls \in UNION {[1..m -> choices] : m \in 1..n}}

LabelLineChoices ==
    {<<>>, <<"[", "A", "]">>, <<"[", "b", "]">>, <<"[", "B">>, <<"C">>, <<"l", "a">>}

SongLineChoices ==
    {<<>>, <<"l", "a">>, <<"C">>, <<" ", " ", "G">>, <<"D", "/", "D", " ", "E">>,
     <<"[", "V", "e", "r", "s", "e", " ", "1", "]">>}

SongShifts == 0..MaxSongShift

InitLabels == text \in Documents(LabelLineChoices, MaxLabelLines) /\ InitCommon

InitSong == text \in Documents(SongLineChoices, MaxSongLines) /\ InitCommon

\* every Chord a song holds, in the order the transforms visit them
RECURSIVE LineChords(_)
LineChords(lines) ==
    IF lines = <<>> THEN <<>>
    ELSE [j \in 1..Len(lines[1].chords) |-> lines[1].chords[j].v] \o LineChords(Tail(lines))

RECURSIVE SongChords(_)
SongChords(segments) ==
    IF segments = <<>> THEN <<>>
    ELSE LineChords(segments[1].lines) \o SongChords(Tail(segments))

\* the Chord objects and the modifier-list objects a song refers to
ChordIds(s) == {SongChords(s.segments)[i].id : i \in 1..Len(SongChords(s.segments))}

ModsIds(s) == {SongChords(s.segments)[i].modsId : i \in 1..Len(SongChords(s.segments))}

\* What an in-place transposition of the objects `ids` by n leaves visible
\* through another reference s: a Chord of s that is one of those objects has
\* been transposed, every other Chord is as it was.
SeenAfterIAdd(s, ids, n) ==
    [segments |-> [i \in 1..Len(s.segments) |->
        [label |-> s.segments[i].label,
         lines |-> [j \in 1..Len(s.segments[i].lines) |->
            [tline |-> s.segments[i].lines[j].tline,
             chords |-> [c \in 1..Len(s.segments[i].lines[j].chords) |->
                [k |-> s.segments[i].lines[j].chords[c].k,
                 v |-> IF s.segments[i].lines[j].chords[c].v.id \in ids
                       THEN Chord__iadd__(s.segments[i].lines[j].chords[c].v, n)
                       ELSE s.segments[i].lines[j].chords[c].v]]]]]]]

\* song = Song.from_text(text)
ParseSong ==
    /\ pc = "start"
    /\ res' = Song_from_text(text, heapTop)
    /\ IF res'.exc = "none"
       THEN /\ pc' = "parsed"
            /\ song' = res'.song
            /\ heapTop' = heapTop + 2 * CountSongChords(res'.song.segments)
       ELSE /\ pc' = "failed"
            /\ UNCHANGED <<song, heapTop>>
    /\ UNCHANGED <<text, chord, base, k, ops, last, prev, out>>

\* song = song + n
SongAdd(n) ==
    /\ pc = "parsed"
    /\ ops < MaxSongOps
    /\ song' = Song__add__(song, n, heapTop)
    /\ prev' = song
    /\ heapTop' = heapTop + 2 * CountSongChords(song.segments)
    /\ ops' = ops + 1
    /\ last' = [op |-> "add", n |-> n]
    /\ out' = Idle
    /\ UNCHANGED <<text, pc, res, chord, base, k>>

\* song = song - n
SongSub(n) ==
    /\ pc = "parsed"
    /\ ops < MaxSongOps
    /\ song' = Song__sub__(song, n, heapTop)
    /\ prev' = song
    /\ heapTop' = heapTop + 2 * CountSongChords(song.segments)
    /\ ops' = ops + 1
    /\ last' = [op |-> "sub", n |-> n]
    /\ out' = Idle
    /\ UNCHANGED <<text, pc, res, chord, base, k>>

\* song += n
SongIAdd(n) ==
    /\ pc = "parsed"
    /\ ops < MaxSongOps
    /\ song' = Song__iadd__(song, n)
    /\ prev' = IF prev = Idle THEN Idle ELSE SeenAfterIAdd(prev, ChordIds(song), n)
    /\ last' = [op |-> "iadd", n |-> n, prev |-> prev]
    /\ ops' = ops + 1
    /\ out' = Idle
    /\ UNCHANGED <<text, pc, res, chord, base, k, heapTop>>

\* song = +song
SongPos ==
    /\ pc = "parsed"
    /\ ops < MaxSongOps
    /\ song' = Song__pos__(song, heapTop)
    /\ prev' = song
    /\ heapTop' = heapTop + CountSongChords(song.segments)
    /\ ops' = ops + 1
    /\ last' = [op |-> "pos", n |-> 0]
    /\ out' = Idle
    /\ UNCHANGED <<text, pc, res, chord, base, k>>

\* song = -song
SongNeg ==
    /\ pc = "parsed"
    /\ ops < MaxSongOps
    /\ song' = Song__neg__(song, heapTop)
    /\ prev' = song
    /\ heapTop' = heapTop + CountSongChords(song.segments)
    /\ ops' = ops + 1
    /\ last' = [op |-> "neg", n |-> 0]
    /\ out' = Idle
    /\ UNCHANGED <<text, pc, res, chord, base, k>>

\* str(song)
SongStr ==
    /\ pc = "parsed"
    /\ out' = [op |-> "str", r |-> Song__str__(song)]
    /\ UNCHANGED <<text, pc, res, chord, base, k, ops, last, song, prev, heapTop>>

\* song.to_tex()
SongToTex ==
    /\ pc = "parsed"
    /\ out' = [op |-> "to_tex", r |-> Song_to_tex(song)]
    /\ UNCHANGED <<text, pc, res, chord, base, k, ops, last, song, prev, heapTop>>

NextLabels == ParseSong

NextSong ==
    \/ ParseSong
    \/ \E n \in SongShifts : SongAdd(n)
    \/ \E n \in SongShifts : SongSub(n)
    \/ \E n \in SongShifts : SongIAdd(n)
    \/ SongPos
    \/ SongNeg
    \/ SongStr
    \/ SongToTex

SpecLabels == InitLabels /\ [][NextLabels]_vars

SpecSong == InitSong /\ [][NextSong]_vars

(***************************************************************************)
(* Claims about Chord.                                                     *)
(***************************************************************************)
\* the fields a transposition must leave alone
SameQuality(a, b) == a.scale = b.scale /\ a.mods = b.mods /\ a.shiftpref = b.shiftpref

\* bass shifted by n when present (pitch class 0 included), absent when absent
ShiftedBass(b, n) == IF b = None THEN None ELSE Some((b[1] + n) % 12)

\* C1: c + n and c += n give root (c.root + n) mod 12, bass (c.bass + n) mod 12
\* when a bass is present (pitch class 0 = C included) and absent otherwise,
\* and leave quality, modifiers and spelling hint unchanged.
C1_TransposeShiftsRootAndBass ==
    last.op \in {"add", "iadd"} =>
        /\ chord.val = (last.before.val + last.n) % 12
        /\ chord.bass = ShiftedBass(last.before.bass, last.n)
        /\ SameQuality(chord, last.before)

\* C2: after pure transpositions (c + n, c - n) whose amounts sum to k the chord
\* equals c + k field by field, k computed as one transposition of c.
C2_TranspositionComposes ==
    pc = "parsed" =>
        LET direct == Chord__add__(base, k, 0)
        IN  /\ chord.val = direct.val
            /\ chord.bass = direct.bass
            /\ SameQuality(chord, direct)

\* C10: every reachable chord has root in 0..11 and bass absent or in 0..11, and
\* its bass is present exactly when the parsed chord's bass was present.
C10_PitchClassesStayInRange ==
    pc = "parsed" =>
        /\ chord.val \in 0..11
        /\ chord.bass = None \/ chord.bass[1] \in 0..11
        /\ (chord.bass = None) <=> (res.chord.bass = None)

\* C10 witness: an in-place transposition by a negative amount wrapped the root
\* of a slash chord below 0.
C10_Witness ==
    /\ pc = "parsed"
    /\ last.op = "iadd"
    /\ last.n < 0
    /\ last.before.val + last.n < 0
    /\ chord.bass # None
    /\ ops > 0

\* pitch class of a bass text: a note letter with an optional accidental
NoteLetters == {"C", "D", "E", "F", "G", "A", "B"}

LetterPitch(l) ==
    CASE l = "C" -> 0 [] l = "D" -> 2 [] l = "E" -> 4 [] l = "F" -> 5
      [] l = "G" -> 7 [] l = "A" -> 9 [] l = "B" -> 11

IsBassText(t) ==
    /\ Len(t) \in {1, 2}
    /\ t[1] \in NoteLetters
    /\ Len(t) = 2 => t[2] \in {"#", "b"}

BassPitch(t) ==
    IF Len(t) = 1 THEN LetterPitch(t[1])
    ELSE (LetterPitch(t[1]) + (IF t[2] = "#" THEN 1 ELSE -1)) % 12

HasSlash(t) == \E i \in 1..Len(t) : t[i] = "/"

\* zero-based offset of the first `/`
SlashAt(t) == (CHOOSE i \in 1..Len(t) : t[i] = "/" /\ \A j \in 1..(i - 1) : t[j] # "/") - 1

\* C6: a slash bass ends the token.  A token with a `/` is accepted
\* exactly when the text before the `/` is an accepted chord and the text after
\* it is a note letter with an optional accidental and nothing else; the bass is
\* then stored and the modifier list is that of the text before the slash.
C6_SlashBassEndsToken ==
    (pc # "start" /\ HasSlash(text)) =>
        LET head == SubSeq(text, 1, SlashAt(text))
            rest == Drop(text, SlashAt(text) + 1)
            h == Chord_from_text(head, 0)
        IN  /\ res.exc = "none" <=> (h.exc = "none" /\ IsBassText(rest))
            /\ res.exc = "none" =>
                  /\ res.chord.bass = Some(BassPitch(rest))
                  /\ res.chord.mods = h.chord.mods
                  /\ res.chord.val = h.chord.val
                  /\ res.chord.scale = h.chord.scale

\* the token is an accepted chord, a slash bass and then vocabulary modifiers
BassThenModifiers(t) ==
    /\ HasSlash(t)
    /\ Chord_from_text(SubSeq(t, 1, SlashAt(t)), 0).exc = "none"
    /\ \E n \in 1..2 :
          /\ Len(t) > SlashAt(t) + 1 + n
          /\ IsBassText(SubSeq(t, SlashAt(t) + 2, SlashAt(t) + 1 + n))
          /\ LET after == Drop(t, SlashAt(t) + 1 + n)
             IN  \E i \in 1..Len(Chord_mods) : after = Chord_mods[i]

\* C6 witness: a token whose slash bass is followed by a vocabulary modifier
\* was parsed, and the parse failed.
C6_Witness == pc = "failed" /\ BassThenModifiers(text) /\ res.exc = "ValueError"

\* C6 as the specification states it: a token whose slash bass is followed by a vocabulary modifier
\* is accepted, with the bass stored and the modifier appended.
C6_BassThenModifiersAccepted ==
    (pc # "start" /\ BassThenModifiers(text)) =>
        /\ res.exc = "none"
        /\ res.chord.bass # None
        /\ res.chord.mods # <<>>

(***************************************************************************)
(* Claims about Segment and Song.                                          *)
(***************************************************************************)
\* the blocks of the document
Blocks == Split(text, <<"\n", "\n">>)

FirstLine(b) == Partition(b, NL).first

\* the block's first line is wrapped in [...]
HasHeader(b) ==
    /\ StartsWith(b, <<"[">>)
    /\ Len(FirstLine(b)) >= 2
    /\ FirstLine(b)[Len(FirstLine(b))] = "]"

\* the block's first line starts with "[" and is not closed by "]"
MalformedHeader(b) == StartsWith(b, <<"[">>) /\ ~HasHeader(b)

\* the text between the brackets of the header
HeaderText(b) == SubSeq(FirstLine(b), 2, Len(FirstLine(b)) - 1)

\* the label of the latest header among blocks 1..i, None when there is none
LatestHeader(bs, i) ==
    LET js == {j \in 1..i : HasHeader(bs[j])}
    IN  IF js = {} THEN None
        ELSE Some(HeaderText(bs[CHOOSE j \in js : \A j2 \in js : j2 <= j]))

LinesOfBlock(b) == {Split(b, NL)[n] : n \in 1..Len(Split(b, NL))}

\* the label the segment of block i must carry: the inner text of the block's
\* own [label] header, otherwise the label of the segment before it
ExpectedLabel(i) ==
    IF HasHeader(Blocks[i]) THEN Some(HeaderText(Blocks[i]))
    ELSE IF i = 1 THEN None
    ELSE song.segments[i - 1].label

\* one segment per block, in block order, each labelled as ExpectedLabel says,
\* hence with the most recently seen header label
Propagated ==
    /\ Len(song.segments) = Len(Blocks)
    /\ \A i \in 1..Len(Blocks) :
          /\ song.segments[i].label = ExpectedLabel(i)
          /\ song.segments[i].label = LatestHeader(Blocks, i)
          /\ \A j \in 1..Len(song.segments[i].lines) :
                song.segments[i].lines[j].tline \in LinesOfBlock(Blocks[i])

\* C5: for every document, Song.from_text yields one segment per block, in
\* block order; segment i's label is the inner text of block i's own [label]
\* header when the block starts with one, otherwise the label of segment i-1,
\* hence the most recently seen header label, and absent when no block so far
\* had a header.
C5_LabelPropagation == pc = "parsed" => Propagated

\* Label propagation over the documents whose header lines are all closed by
\* "]" (an unclosed header line is the case of C7).
ClosedHeaderPropagation ==
    (pc = "parsed" /\ \A i \in 1..Len(Blocks) : ~MalformedHeader(Blocks[i])) => Propagated

\* a parsed document of at least three blocks in which a block without header
\* inherited a label and a later block's header replaced it
ClosedHeaderPropagated ==
    /\ pc = "parsed"
    /\ \A i \in 1..Len(Blocks) : ~MalformedHeader(Blocks[i])
    /\ \E i \in 2..Len(Blocks) : \E j \in (i + 1)..Len(Blocks) :
          /\ ~HasHeader(Blocks[i])
          /\ song.segments[i].label # None
          /\ HasHeader(Blocks[j])
          /\ song.segments[j].label # song.segments[i].label

\* C7: a block whose first line starts with "[" and is not closed by "]" makes
\* Song.from_text fail; no Song is returned.
C7_UnterminatedHeaderFails ==
    (pc # "start" /\ \E i \in 1..Len(Blocks) : MalformedHeader(Blocks[i])) =>
        res.exc # "none"

\* the chord tokens a chord-annotation line must show: each chord's rendered
\* text at the chord's stored column
ExpectedRuns(chords) ==
    [c \in 1..Len(chords) |-> [start |-> chords[c].k, tok |-> Chord__str__(chords[c].v).text]]

\* C3: in the plain rendering each chord's text starts exactly at the chord's
\* stored column of the chord-annotation line, so that the tokens of the
\* rendered line, with their columns, are the chords of the mapping.
C3_PlainRenderingKeepsColumns ==
    (pc = "parsed" /\ out # Idle /\ out.op = "str" /\ out.r.exc = "none") =>
        \A i \in 1..Len(song.segments) : \A j \in 1..Len(song.segments[i].lines) :
            RunsFrom(out.r.lines[i][j], 0) = ExpectedRuns(song.segments[i].lines[j].chords)

\* C4: both renderings of a parsed song return text; neither raises.
C4_RenderingIsTotal ==
    (pc = "parsed" /\ out # Idle) => out.r.exc = "none"

\* what the markup rendering must write for one line: an inline marker before
\* the character at each chord's column inside the lyric line, then the other
\* chords as trailing markers by ascending column with the end-of-line
\* placeholder, then the line break
ExpectedTexLine(line, chords) ==
    LET inline == [n \in 1..Len(line) |->
                      (IF DictHas(chords, n - 1)
                       THEN TexMarker(Chord__str__(DictGet(chords, n - 1)).text)
                       ELSE <<>>) \o <<line[n]>>]
        ks == Sorted({chords[c].k : c \in {x \in 1..Len(chords) : chords[x].k >= Len(line)}})
        trailing == [n \in 1..Len(ks) |->
                        <<" ">> \o TexMarker(Chord__str__(DictGet(chords, ks[n])).text)]
    IN  Join(inline) \o Join(trailing)
        \o (IF ks # <<>> THEN <<" ", "\\", "e", "m", "p", "t", "y">> ELSE <<>>)
        \o <<" ", "\\", "\\", "\n">>

\* C8: in the markup rendering every chord of every line is emitted exactly once
\* in that line's output, inline before the character at its column or as a
\* trailing marker, whatever the lengths of the lines before it.
C8_MarkupEmitsEveryChord ==
    (pc = "parsed" /\ out # Idle /\ out.op = "to_tex" /\ out.r.exc = "none") =>
        \A i \in 1..Len(song.segments) : \A j \in 1..Len(song.segments[i].lines) :
            out.r.lines[i][j] = ExpectedTexLine(song.segments[i].lines[j].tline,
                                                song.segments[i].lines[j].chords)

\* C9: the result of a pure transform and its receiver share no Chord object
\* and no modifier list, and an in-place transposition of the result leaves
\* the receiver as it was.
C9_PureTransformSharesNothing ==
    /\ (pc = "parsed" /\ prev # Idle) =>
          /\ ChordIds(song) \cap ChordIds(prev) = {}
          /\ ModsIds(song) \cap ModsIds(prev) = {}
    /\ (last.op = "iadd" /\ prev # Idle) => prev = last.prev

====
